---- MODULE Spec2Model ----
(***************************************************************************)
(* AthenaConcierge backend: the settings record (app/config.py), the Slack *)
(* message handler and bot start (app/integrations/slack_bot.py) and the   *)
(* HTTP service with its two routes and CORS middleware (app/main.py).     *)
(***************************************************************************)
EXTENDS FiniteSets, Integers, Sequences, TLC

VARIABLES
    environ,        \* os.environ at process start: variable name -> value
    dotenv,         \* the .env file: [exists, vars]
    settingsState,  \* "unloaded" | "loaded" | "error"  (settings = Settings())
    settings,       \* the Settings record, field -> value
    slackApp,       \* slack_bot module: "unimported" | "ready" | "failed"
    botState,       \* "stopped" | "connected" | "failed"
    socketToken,    \* app token handed to SocketModeHandler
    moduleLog,      \* records of the module-level logger of slack_bot.py
    message,        \* the message dict of the latest handle_message call
    handlerExit,    \* "none" | "returned" | "raised"
    sayCalls,       \* calls made on the `say` of the latest invocation
    logRecords,     \* records emitted on the `logger` of the latest invocation
    req             \* HTTP request slots

vars == <<environ, dotenv, settingsState, settings, slackApp, botState,
          socketToken, moduleLog, message, handlerExit, sayCalls, logRecords, req>>

configVars == <<environ, dotenv, settingsState, settings>>
slackVars == <<slackApp, botState, socketToken, moduleLog, message, handlerExit,
               sayCalls, logRecords>>

(***************************************************************************)
(* Bounds                                                                  *)
(***************************************************************************)
MaxSupplied == 1    \* variables set in the environment / entries of .env
MaxRequests == 2    \* HTTP requests in flight at once

(***************************************************************************)
(* app/config.py                                                           *)
(***************************************************************************)
Fields ==
    {"SUPABASE_URL", "SUPABASE_SERVICE_KEY", "DATABASE_URL", "ANTHROPIC_API_KEY",
     "SLACK_BOT_TOKEN", "SLACK_APP_TOKEN", "SLACK_SIGNING_SECRET",
     "AWS_ACCESS_KEY_ID", "AWS_SECRET_ACCESS_KEY", "AWS_REGION",
     "SES_EMAIL_ADDRESS", "SECRET_KEY", "ENVIRONMENT"}

\* variant: the region defaults to "" like the other AWS fields
DefaultRegionEmpty ==
    [f \in Fields |->
        CASE f = "DATABASE_URL" -> "sqlite:///./test.db"
          [] f = "SECRET_KEY"   -> "temporary-secret-key-change-in-production"
          [] f = "ENVIRONMENT"  -> "development"
          [] OTHER              -> ""]

\* the declared default of each field
Default ==
    [f \in Fields |->
        CASE f = "DATABASE_URL" -> "sqlite:///./test.db"
          [] f = "AWS_REGION"   -> "us-east-1"
          [] f = "SECRET_KEY"   -> "temporary-secret-key-change-in-production"
          [] f = "ENVIRONMENT"  -> "development"
          [] OTHER              -> ""]

\* names that differ from a field's name only in case
MiscasedNames == {"aws_region", "Environment"}
Names == Fields \cup MiscasedNames
Values == {"", "v1", "v2"}

\* str.lower() on the names in use
Lower(n) ==
    CASE n \in {"AWS_REGION", "aws_region"}   -> "aws_region"
      [] n \in {"ENVIRONMENT", "Environment"} -> "environment"
      [] OTHER                                -> n

\* variant: the app token is read from the bot token's variable
EnvNameAliased(f) == IF f = "SLACK_APP_TOKEN" THEN "SLACK_BOT_TOKEN" ELSE f

\* the environment variable a field is read from: its own name, no prefix
EnvName(f) == f

\* variant: case_sensitive = False, names compared in lower case
FieldMatchesAnyCase(n, f) == Lower(n) = Lower(EnvName(f))

\* model_config case_sensitive = True: a variable supplies a field only on
\* an exact match of its name
FieldMatches(n, f) == n = EnvName(f)

Matching(srcvars, f) == {n \in DOMAIN srcvars : FieldMatches(n, f)}
Supplies(srcvars, f) == Matching(srcvars, f) # {}
ValueFrom(srcvars, f) == srcvars[CHOOSE n \in Matching(srcvars, f) : TRUE]

\* source order of BaseSettings: environment, then env_file, then default
Resolve(env, file, f) ==
    IF Supplies(env, f) THEN ValueFrom(env, f)
    ELSE IF file.exists /\ Supplies(file.vars, f) THEN ValueFrom(file.vars, f)
    ELSE Default[f]

\* entries of the env_file that belong to no field; BaseSettings forbids
\* extra inputs, and the dotenv source hands unmatched entries on as inputs
Extras(file) ==
    IF file.exists
    THEN {n \in DOMAIN file.vars : \A f \in Fields : ~FieldMatches(n, f)}
    ELSE {}
MustReject(file) == \E n \in Extras(file) : file.vars[n] # ""
MayReject(file) == Extras(file) # {}

Unset == "<unset>"
NoSettings == [f \in Fields |-> Unset]

\* variant: a validator rejects an empty ANTHROPIC_API_KEY at load time
LoadSettingsValidating ==
    /\ settingsState = "unloaded"
    /\ \/ /\ ~MustReject(dotenv)
          /\ Resolve(environ, dotenv, "ANTHROPIC_API_KEY") # ""
          /\ settingsState' = "loaded"
          /\ settings' = [f \in Fields |-> Resolve(environ, dotenv, f)]
       \/ /\ MayReject(dotenv) \/ Resolve(environ, dotenv, "ANTHROPIC_API_KEY") = ""
          /\ settingsState' = "error"
          /\ settings' = settings
    /\ UNCHANGED <<environ, dotenv, slackVars, req>>

\* settings = Settings()
LoadSettings ==
    /\ settingsState = "unloaded"
    /\ \/ /\ ~MustReject(dotenv)
          /\ settingsState' = "loaded"
          /\ settings' = [f \in Fields |-> Resolve(environ, dotenv, f)]
       \/ /\ MayReject(dotenv)
          /\ settingsState' = "error"
          /\ settings' = settings
    /\ UNCHANGED <<environ, dotenv, slackVars, req>>

EmptyVars == [n \in {} |-> ""]
VarSets(names, k) ==
    UNION {[S -> Values] : S \in {T \in SUBSET names : Cardinality(T) <= k}}
NoFile == [exists |-> FALSE, vars |-> EmptyVars]
Files(names, k) == {NoFile} \cup {[exists |-> TRUE, vars |-> v] : v \in VarSets(names, k)}

(***************************************************************************)
(* app/integrations/slack_bot.py                                           *)
(***************************************************************************)
Texts == {"", "hello"}
Users == {"U123"}
\* message dicts: each of the keys "text" and "user" present or absent
Messages ==
    {m \in UNION {[S -> Texts \cup Users] : S \in SUBSET {"text", "user"}} :
        /\ "text" \in DOMAIN m => m["text"] \in Texts
        /\ "user" \in DOMAIN m => m["user"] \in Users}
EmptyDict == [k \in {} |-> ""]

\* dict.get(key, default)
DictGetDefault(d, k, dflt) == IF k \in DOMAIN d THEN d[k] ELSE dflt
\* dict.get(key): the value, or None
DictGet(d, k) ==
    IF k \in DOMAIN d THEN [some |-> TRUE, val |-> d[k]]
    ELSE [some |-> FALSE, val |-> ""]
\* f"{v}" of a str or None
Format(v) == IF v.some THEN v.val ELSE "None"

\* app = App(token=settings.SLACK_BOT_TOKEN), at import of the module
ImportSlackBot ==
    /\ settingsState = "loaded"
    /\ slackApp = "unimported"
    /\ \/ /\ settings["SLACK_BOT_TOKEN"] # ""
          /\ slackApp' = "ready"
       \/ slackApp' = "failed"
    /\ UNCHANGED <<configVars, botState, socketToken, moduleLog, message,
                   handlerExit, sayCalls, logRecords, req>>

\* variant: message["text"] in place of message.get("text", ""), a KeyError
\* when the key is absent
HandleMessageIndexing(m) ==
    /\ slackApp = "ready"
    /\ message' = m
    /\ IF "text" \in DOMAIN m
       THEN /\ logRecords' = <<"Received message from " \o Format(DictGet(m, "user"))
                                    \o ": " \o m["text"]>>
            /\ sayCalls' = <<"Message received: " \o m["text"]>>
            /\ handlerExit' = "returned"
       ELSE /\ logRecords' = <<>>
            /\ sayCalls' = <<>>
            /\ handlerExit' = "raised"
    /\ UNCHANGED <<configVars, slackApp, botState, socketToken, moduleLog, req>>

\* handle_message(message, say, logger)
HandleMessage(m) ==
    /\ slackApp = "ready"
    /\ LET text == DictGetDefault(m, "text", "")
           user == DictGet(m, "user")
       IN /\ message' = m
          /\ logRecords' = <<"Received message from " \o Format(user) \o ": " \o text>>
          /\ sayCalls' = <<"Message received: " \o text>>
          /\ handlerExit' = "returned"
    /\ UNCHANGED <<configVars, slackApp, botState, socketToken, moduleLog, req>>

\* variant: the start call writes a fallback app token into the settings
StartSlackBotOverwritesToken ==
    /\ slackApp = "ready"
    /\ botState = "stopped"
    /\ settings' = [settings EXCEPT !["SLACK_APP_TOKEN"] = "xapp-fallback"]
    /\ socketToken' = "xapp-fallback"
    /\ moduleLog' = Append(moduleLog, "Starting Slack bot...")
    /\ botState' \in {"connected", "failed"}
    /\ UNCHANGED <<environ, dotenv, settingsState, slackApp, message, handlerExit,
                   sayCalls, logRecords, req>>

\* start_slack_bot()
StartSlackBot ==
    /\ slackApp = "ready"
    /\ botState = "stopped"
    /\ socketToken' = settings["SLACK_APP_TOKEN"]
    /\ moduleLog' = Append(moduleLog, "Starting Slack bot...")
    /\ \/ /\ settings["SLACK_APP_TOKEN"] # ""
          /\ botState' = "connected"
       \/ botState' = "failed"
    /\ UNCHANGED <<configVars, slackApp, message, handlerExit, sayCalls,
                   logRecords, req>>

(***************************************************************************)
(* app/main.py                                                             *)
(***************************************************************************)
Slots == 1..MaxRequests
Paths == {"/", "/health"}
NoOrigin == "<no-origin>"
Origins == {NoOrigin, "https://client.example"}
NoHeader == "<absent>"

\* CORSMiddleware configuration
AllowOrigins == {"*"}
AllowCredentials == TRUE
AllowMethods == {"*"}
AllowHeaders == {"*"}

NoCorsHeaders == [acao |-> NoHeader, acac |-> NoHeader]
NoResponse == [status |-> 0, body |-> [none |-> ""], headers |-> NoCorsHeaders]
Json(status, body) == [status |-> status, body |-> body, headers |-> NoCorsHeaders]
\* the 500 of the server-error layer, which sits outside the CORS middleware
ServerError == [status |-> 500, body |-> [text |-> "Internal Server Error"],
                headers |-> NoCorsHeaders]

RootBody == [message |-> "AI Concierge API", status |-> "running"]
HealthBody == [status |-> "healthy", database |-> "connected"]

\* variant: allow_origins lists one origin in place of "*"
CorsRestricted(origin, cookie, resp) ==
    IF origin = NoOrigin THEN resp
    ELSE [resp EXCEPT !.headers =
            [acao |-> IF origin \in {"https://app.example"} THEN origin ELSE NoHeader,
             acac |-> IF AllowCredentials THEN "true" ELSE NoHeader]]

\* the CORS middleware on a response passing through it: it acts only on
\* requests that carry an Origin header
Cors(origin, cookie, resp) ==
    IF origin = NoOrigin THEN resp
    ELSE [resp EXCEPT !.headers =
            [acao |-> IF "*" \in AllowOrigins
                      THEN (IF cookie THEN origin ELSE "*")
                      ELSE IF origin \in AllowOrigins THEN origin ELSE NoHeader,
             acac |-> IF AllowCredentials THEN "true" ELSE NoHeader]]

IdleSlot == [pc |-> "idle", path |-> "/", origin |-> NoOrigin,
             session |-> "none", queries |-> 0, response |-> NoResponse]

\* a GET request arrives on a free slot
Arrive(r, p, o) ==
    /\ settingsState = "loaded"
    /\ req[r].pc \in {"idle", "done"}
    /\ req' = [req EXCEPT ![r] = [IdleSlot EXCEPT !.pc = "received", !.path = p,
                                                  !.origin = o]]
    /\ UNCHANGED <<configVars, slackVars>>

\* variant: the root body reports the configured environment name
RootReadingSettings(r) ==
    /\ req[r].pc = "received"
    /\ req[r].path = "/"
    /\ \E cookie \in BOOLEAN :
         req' = [req EXCEPT ![r].pc = "done",
                            ![r].response =
                                Cors(req[r].origin, cookie,
                                     Json(200, [message |-> "AI Concierge API",
                                                status |-> settings["ENVIRONMENT"]]))]
    /\ UNCHANGED <<configVars, slackVars>>

\* root(); the response passes the CORS middleware, which reads the
\* request's Origin and Cookie headers
Root(r) ==
    /\ req[r].pc = "received"
    /\ req[r].path = "/"
    /\ \E cookie \in BOOLEAN :
         req' = [req EXCEPT ![r].pc = "done",
                            ![r].response = Cors(req[r].origin, cookie,
                                                 Json(200, RootBody))]
    /\ UNCHANGED <<configVars, slackVars>>

\* Depends(get_db): the session provider yields a session, or raises
AcquireSession(r) ==
    /\ req[r].pc = "received"
    /\ req[r].path = "/health"
    /\ \/ req' = [req EXCEPT ![r].pc = "resolved", ![r].session = "held"]
       \/ req' = [req EXCEPT ![r].pc = "done", ![r].response = ServerError]
    /\ UNCHANGED <<configVars, slackVars>>

\* variant: the route declares no dependency, the body runs without a session
HealthCheckNoDependency(r) ==
    /\ req[r].pc \in {"received", "resolved"}
    /\ req[r].path = "/health"
    /\ \E cookie \in BOOLEAN :
         req' = [req EXCEPT ![r].pc = "returned",
                            ![r].response = Cors(req[r].origin, cookie,
                                                 Json(200, HealthBody))]
    /\ UNCHANGED <<configVars, slackVars>>

\* variant: the body probes the database with a query before answering
HealthCheckQuerying(r) ==
    /\ req[r].pc = "resolved"
    /\ req[r].path = "/health"
    /\ \E cookie \in BOOLEAN :
         req' = [req EXCEPT ![r].pc = "returned",
                            ![r].queries = @ + 1,
                            ![r].response = Cors(req[r].origin, cookie,
                                                 Json(200, HealthBody))]
    /\ UNCHANGED <<configVars, slackVars>>

\* health_check(db)
HealthCheck(r) ==
    /\ req[r].pc = "resolved"
    /\ req[r].path = "/health"
    /\ \E cookie \in BOOLEAN :
         req' = [req EXCEPT ![r].pc = "returned",
                            ![r].response = Cors(req[r].origin, cookie,
                                                 Json(200, HealthBody))]
    /\ UNCHANGED <<configVars, slackVars>>

\* get_db after its yield: the session is closed
ReleaseSession(r) ==
    /\ req[r].pc = "returned"
    /\ req' = [req EXCEPT ![r].pc = "done", ![r].session = "closed"]
    /\ UNCHANGED <<configVars, slackVars>>

(***************************************************************************)
(* Specifications                                                          *)
(***************************************************************************)
InitRest ==
    /\ settingsState = "unloaded"
    /\ settings = NoSettings
    /\ slackApp = "unimported"
    /\ botState = "stopped"
    /\ socketToken = Unset
    /\ moduleLog = <<>>
    /\ message = EmptyDict
    /\ handlerExit = "none"
    /\ sayCalls = <<>>
    /\ logRecords = <<>>
    /\ req = [r \in Slots |-> IdleSlot]

\* the whole service, started under a few environments
ServiceEnvs ==
    UNION {[S -> {"v1"}] : S \in SUBSET {"SLACK_BOT_TOKEN", "SLACK_APP_TOKEN"}}
ServiceFiles ==
    {NoFile, [exists |-> TRUE, vars |-> [n \in {"Environment"} |-> "v2"]]}

Init ==
    /\ environ \in ServiceEnvs
    /\ dotenv \in ServiceFiles
    /\ InitRest

Serve(r) == Root(r) \/ AcquireSession(r) \/ HealthCheck(r) \/ ReleaseSession(r)

Next ==
    \/ LoadSettings
    \/ ImportSlackBot
    \/ \E m \in Messages : HandleMessage(m)
    \/ StartSlackBot
    \/ \E r \in Slots, p \in Paths, o \in Origins : Arrive(r, p, o)
    \/ \E r \in Slots : Serve(r)

Spec == Init /\ [][Next]_vars

\* loading alone, over every environment and .env file within the bounds
InitConfig ==
    /\ environ \in VarSets(Names, MaxSupplied)
    /\ dotenv \in Files(Names, MaxSupplied)
    /\ InitRest

NextConfig == LoadSettings

SpecConfig == InitConfig /\ [][NextConfig]_vars

\* the HTTP service alone, running to completion every request it accepted
NextHttp ==
    \/ LoadSettings
    \/ \E r \in Slots, p \in Paths, o \in Origins : Arrive(r, p, o)
    \/ \E r \in Slots : Serve(r)

InitHttp ==
    /\ environ = EmptyVars
    /\ dotenv = NoFile
    /\ InitRest

FairSpec == InitHttp /\ [][NextHttp]_vars /\ \A r \in Slots : WF_vars(Serve(r))

(***************************************************************************)
(* Properties                                                              *)
(***************************************************************************)
Loaded == settingsState = "loaded"
InEnviron(f) == f \in DOMAIN environ
InDotenv(f) == dotenv.exists /\ f \in DOMAIN dotenv.vars
SuppliedNames == DOMAIN environ \cup (IF dotenv.exists THEN DOMAIN dotenv.vars ELSE {})

\* the defaults as documented: four named values, "" for every other key
DocumentedDefaults ==
    [SUPABASE_URL |-> "", SUPABASE_SERVICE_KEY |-> "",
     DATABASE_URL |-> "sqlite:///./test.db", ANTHROPIC_API_KEY |-> "",
     SLACK_BOT_TOKEN |-> "", SLACK_APP_TOKEN |-> "", SLACK_SIGNING_SECRET |-> "",
     AWS_ACCESS_KEY_ID |-> "", AWS_SECRET_ACCESS_KEY |-> "",
     AWS_REGION |-> "us-east-1", SES_EMAIL_ADDRESS |-> "",
     SECRET_KEY |-> "temporary-secret-key-change-in-production",
     ENVIRONMENT |-> "development"]

\* C1: once handle_message has been invoked on a message, the invocation has
\* returned, `say` was called exactly once with "Message received: " followed
\* by the text (nothing when the text key is absent), and exactly one log
\* record was emitted, naming the sender (None when absent) and the text.
C1_Acknowledged ==
    handlerExit # "none" =>
        LET T == IF "text" \in DOMAIN message THEN message["text"] ELSE ""
            S == IF "user" \in DOMAIN message THEN message["user"] ELSE "None"
        IN /\ handlerExit = "returned"
           /\ Len(sayCalls) = 1
           /\ sayCalls[1] = "Message received: " \o T
           /\ Len(logRecords) = 1
           /\ logRecords[1] = "Received message from " \o S \o ": " \o T

C1_Witness ==
    /\ handlerExit = "returned"
    /\ DOMAIN message = {}
    /\ sayCalls = <<"Message received: ">>

\* C2 as stated: the region of the loaded record is never empty, whatever
\* the environment and the override file hold.
C2_RegionNeverEmpty == Loaded => settings["AWS_REGION"] # ""

\* C2 amended: the region of the loaded record is empty only when the value
\* that wins for AWS_REGION (the environment's, else the override file's) is
\* itself the empty string; with the key supplied by neither it is us-east-1.
C2_RegionEmptyOnlyIfSupplied ==
    Loaded =>
        /\ settings["AWS_REGION"] = "" =>
              \/ InEnviron("AWS_REGION") /\ environ["AWS_REGION"] = ""
              \/ /\ ~InEnviron("AWS_REGION")
                 /\ InDotenv("AWS_REGION")
                 /\ dotenv.vars["AWS_REGION"] = ""
        /\ (~InEnviron("AWS_REGION") /\ ~InDotenv("AWS_REGION")) =>
              settings["AWS_REGION"] = "us-east-1"

C2_Witness ==
    /\ Loaded
    /\ SuppliedNames # {}
    /\ "AWS_REGION" \notin SuppliedNames
    /\ settings["AWS_REGION"] = "us-east-1"

\* C3: with an empty environment and no override file the load raises no
\* error and yields the documented default for every key.
C3_DefaultsLoaded ==
    (settingsState # "unloaded" /\ DOMAIN environ = {} /\ ~dotenv.exists) =>
        /\ settingsState = "loaded"
        /\ settings = DocumentedDefaults

C3_Witness ==
    /\ Loaded
    /\ DOMAIN environ = {}
    /\ ~dotenv.exists
    /\ settings["ANTHROPIC_API_KEY"] = ""

\* C4: when exactly one recognized key is supplied (by the environment, the
\* override file, or both) and nothing else is, every other field of the
\* loaded record holds its default.
C4_SingleOverride ==
    \A k \in Fields :
        (Loaded /\ SuppliedNames = {k}) =>
            \A f \in Fields \ {k} : settings[f] = DocumentedDefaults[f]

C4_Witness ==
    /\ Loaded
    /\ SuppliedNames = {"SLACK_BOT_TOKEN"}
    /\ settings["SLACK_BOT_TOKEN"] # DocumentedDefaults["SLACK_BOT_TOKEN"]

\* C5: every field of the loaded record holds the environment's value for
\* the variable of exactly its name if there is one, else the override
\* file's entry of exactly its name if there is one, else its default; a
\* name in another case supplies nothing.
C5_Precedence ==
    Loaded =>
        \A f \in Fields :
            settings[f] = IF InEnviron(f) THEN environ[f]
                          ELSE IF InDotenv(f) THEN dotenv.vars[f]
                          ELSE DocumentedDefaults[f]

C5_Witness ==
    /\ Loaded
    /\ \E f \in Fields :
        /\ InEnviron(f)
        /\ InDotenv(f)
        /\ environ[f] # dotenv.vars[f]
        /\ settings[f] = environ[f]

\* C6: once loaded, the settings record is changed by no step of the
\* program: message handling, either route, session handling, the bot start.
C6_SettingsNeverMutated ==
    [][Loaded => (settings' = settings /\ settingsState' = "loaded")]_vars

C6_Witness ==
    /\ Loaded
    /\ handlerExit = "returned"
    /\ botState # "stopped"
    /\ \E r \in Slots : req[r].pc = "done" /\ req[r].path = "/health"
    /\ \E r \in Slots : req[r].pc = "done" /\ req[r].path = "/"

\* C7: the session of a GET /health request is held exactly from the
\* resolution of the dependency, before the body runs, until the request
\* ends; a request that has ended holds no session, and a session that is
\* held is eventually closed.
C7_SessionScoped ==
    /\ [](\A r \in Slots :
            /\ req[r].pc \in {"resolved", "returned"} => req[r].session = "held"
            /\ req[r].pc \in {"idle", "received", "done"} => req[r].session # "held"
            /\ req[r].path = "/" => req[r].session = "none")
    /\ \A r \in Slots : (req[r].session = "held") ~> (req[r].session = "closed")

C7_Witness ==
    \E r \in Slots :
        /\ req[r].path = "/health"
        /\ req[r].pc = "done"
        /\ req[r].session = "closed"
        /\ req[r].response.status = 200

\* C8: a GET /health request whose session was yielded answers 200 with the
\* body {"status": "healthy", "database": "connected"} and issues no query
\* on the session; one whose session acquisition failed never ran the body
\* and carries no healthy response.
C8_HealthContract ==
    \A r \in Slots :
        req[r].path = "/health" =>
            /\ req[r].queries = 0
            /\ (req[r].pc \in {"returned", "done"} /\ req[r].session # "none") =>
                  /\ req[r].response.status = 200
                  /\ req[r].response.body = HealthBody
            /\ (req[r].pc = "done" /\ req[r].session = "none") =>
                  /\ req[r].response.status # 200
                  /\ req[r].response.body # HealthBody

C8_Witness ==
    /\ \E r \in Slots :
        /\ req[r].path = "/health"
        /\ req[r].pc = "done"
        /\ req[r].session = "closed"
        /\ req[r].response.body = HealthBody
    /\ \E r \in Slots :
        /\ req[r].path = "/health"
        /\ req[r].pc = "done"
        /\ req[r].session = "none"

\* C9: every answered GET / request carries status 200 and the body
\* {"message": "AI Concierge API", "status": "running"}, whatever its
\* headers, the settings and the other requests, and it used no session.
C9_RootContract ==
    \A r \in Slots :
        (req[r].path = "/" /\ req[r].pc = "done") =>
            /\ req[r].response.status = 200
            /\ req[r].response.body = RootBody
            /\ req[r].session = "none"
            /\ req[r].queries = 0

C9_Witness ==
    /\ settings["SLACK_BOT_TOKEN"] # ""
    /\ \E r \in Slots :
        /\ req[r].path = "/"
        /\ req[r].pc = "done"
        /\ req[r].origin # NoOrigin
    /\ \E r \in Slots : req[r].path = "/health" /\ req[r].pc = "done"

Answered(r) == req[r].response # NoResponse
PermitsOrigin(r) ==
    /\ req[r].response.headers.acao \in {"*", req[r].origin}
    /\ req[r].response.headers.acao # NoOrigin
    /\ req[r].response.headers.acac = "true"

\* C10 as stated: every response of the service carries cross-origin
\* headers permitting any origin.
C10_CorsOnEveryResponse ==
    \A r \in Slots : Answered(r) => PermitsOrigin(r)

\* C10 amended: every response to a request that carries an Origin header,
\* other than the 500 of a failure that propagated unhandled, carries
\* Access-Control-Allow-Origin ("*", or the request's origin when it sent a
\* cookie) and Access-Control-Allow-Credentials: true; the configured policy
\* allows all origins, methods and headers, with credentials.
C10_CorsOnOriginRequests ==
    /\ AllowOrigins = {"*"} /\ AllowMethods = {"*"} /\ AllowHeaders = {"*"}
    /\ AllowCredentials
    /\ \A r \in Slots :
        (Answered(r) /\ req[r].origin # NoOrigin /\ req[r].response.status # 500) =>
            PermitsOrigin(r)

C10_Witness ==
    /\ \E r \in Slots :
        /\ req[r].path = "/"
        /\ req[r].origin # NoOrigin
        /\ Answered(r)
        /\ req[r].response.headers.acao = "*"
    /\ \E r \in Slots :
        /\ req[r].path = "/health"
        /\ req[r].origin # NoOrigin
        /\ req[r].response.status = 200
        /\ req[r].response.headers.acao = req[r].origin
====
